---- MODULE Spec2Model ----
(***************************************************************************)
(* A model of converter_tif_glb.py: the conversion of a 3-D TIF volume      *)
(* into a GLB scene of iso-surface layers (tif_to_glb), the per-voxel       *)
(* transparency classifier (transparency) and the command-line entry        *)
(* (main).                                                                  *)
(*                                                                          *)
(* Numbers.  Voxel intensities are the integers of the decoded image.      *)
(* Floating-point values (the normalized field, iso-values, coordinates,   *)
(* transparency bands) are exact rationals <<n, d>> in lowest terms with   *)
(* d > 0; <<0, 0>> is NaN (numpy's 0/0) and <<1, 0>>, <<-1, 0>> are +inf   *)
(* and -inf (numpy's x/0).  Rounding to float32/float64 is not modelled.   *)
(*                                                                          *)
(* Library calls (tifffile, numpy, pyvista, trimesh) are modelled by what  *)
(* each call does to the data the program passes on: imread yields the     *)
(* array or raises, contour runs marching cubes on the active scalars,     *)
(* save/load round-trips the geometry through an STL file (which holds no  *)
(* point data), add_geometry appends a named node, export writes the       *)
(* scene.                                                                   *)
(***************************************************************************)
EXTENDS Integers, Sequences, FiniteSets, TLC

VARIABLES
    call,              \* a pure-function application: its arguments and result
    args,              \* the arguments of the invocation (command line or direct call)
    pc,                \* the position of the invocation in main / tif_to_glb
    error,             \* the exception that ended the invocation, or "none"
    volume_data,       \* tifffile.imread's array: [shape, data]
    transparency_data, \* the classifier applied to every voxel
    normalized_data,   \* the normalized field
    grid,              \* the pyvista UniformGrid
    all_contours,      \* the pyvista contour meshes, in request order
    files,             \* the STL files written to the working directory
    meshes,            \* the trimesh meshes loaded back, in request order
    materials,         \* the three PBR materials created at lines 107-109
    scene,             \* the trimesh Scene: its nodes in insertion order
    i,                 \* the index of the enumerate loop in progress
    exported,          \* the GLB files written by scene.export, in order
    log,               \* history: the steps the invocation has performed
    run,               \* history: the number of the current invocation
    prev               \* history: the outcome of the previous invocation

vars == <<call, args, pc, error, volume_data, transparency_data, normalized_data,
          grid, all_contours, files, meshes, materials, scene, i, exported, log,
          run, prev>>

(***************************************************************************)
(* Bounds of the model.                                                    *)
(***************************************************************************)
\* the largest raw intensity of a voxel
RawMax == 2
\* the longest contour request
MaxContours == 2
\* the number of invocations on the same volume (with other thresholds)
MaxRuns == 2
\* classifier arguments range over -1 .. ArgMax (and the defaults)
ArgMax == 3

(***************************************************************************)
(* Rational arithmetic with NaN and infinities (float semantics).          *)
(***************************************************************************)
Abs(n) == IF n < 0 THEN -n ELSE n

RECURSIVE Gcd(_, _)
Gcd(a, b) == IF b = 0 THEN a ELSE Gcd(b, a % b)

Sign(n) == IF n < 0 THEN -1 ELSE IF n > 0 THEN 1 ELSE 0

\* numpy true division n / d of two integers, as a value in lowest terms
TrueDivide(n, d) ==
    IF d = 0 THEN <<Sign(n), 0>>
    ELSE LET g == Gcd(Abs(n), Abs(d))
             s == IF d < 0 THEN -1 ELSE 1
         IN  <<(s * n) \div g, (s * d) \div g>>

NaN == <<0, 0>>
IsNaN(r) == r = NaN
Rat(n) == <<n, 1>>

\* float comparisons: every comparison with NaN is false
RatLt(a, b) ==
    /\ ~IsNaN(a)
    /\ ~IsNaN(b)
    /\ IF a[2] = 0 /\ b[2] = 0 THEN a[1] < b[1] ELSE a[1] * b[2] < b[1] * a[2]
RatGe(a, b) ==
    /\ ~IsNaN(a)
    /\ ~IsNaN(b)
    /\ IF a[2] = 0 /\ b[2] = 0 THEN a[1] >= b[1] ELSE a[1] * b[2] >= b[1] * a[2]
RatLe(a, b) == RatGe(b, a)
RatGt(a, b) == RatLt(b, a)

\* arithmetic on finite values (the only ones the interpolation meets)
RatAdd(a, b) == TrueDivide(a[1] * b[2] + b[1] * a[2], a[2] * b[2])
RatSub(a, b) == TrueDivide(a[1] * b[2] - b[1] * a[2], a[2] * b[2])
RatMul(a, b) == TrueDivide(a[1] * b[1], a[2] * b[2])
RatDiv(a, b) == TrueDivide(a[1] * b[2], a[2] * b[1])

(***************************************************************************)
(* transparency(value, low, mid, upp), lines 17-25.                        *)
(***************************************************************************)
\* the three bands the classifier returns: 1.0, 0.75, 0.5
Band100 == <<1, 1>>
Band075 == <<3, 4>>
Band050 == <<1, 2>>

\* the classifier with its branches in another order: upp tested first
transparency_upp_first(value, low, mid, upp) ==
    IF value >= upp THEN Band050
    ELSE IF value < low THEN Band100
    ELSE IF value >= low /\ value <= mid THEN Band075
    ELSE Band100

\* the classifier with the lower bound of the 0.75 band exclusive
transparency_low_exclusive(value, low, mid, upp) ==
    IF value < low THEN Band100
    ELSE IF value > low /\ value <= mid THEN Band075
    ELSE IF value >= upp THEN Band050
    ELSE Band100

transparency(value, low, mid, upp) ==
    IF value < low THEN Band100
    ELSE IF value >= low /\ value <= mid THEN Band075
    ELSE IF value >= upp THEN Band050
    ELSE Band100

(***************************************************************************)
(* Arrays.  An array is [shape |-> <<d0, d1, d2>>, data |-> a function on  *)
(* its index triples] (0-based indices, as in numpy).                      *)
(***************************************************************************)
Indices(shape) ==
    {<<x, y, z>> : x \in 0 .. shape[1] - 1, y \in 0 .. shape[2] - 1,
                   z \in 0 .. shape[3] - 1}

Size(shape) == shape[1] * shape[2] * shape[3]

ArrayMin(a) ==
    CHOOSE m \in {a.data[p] : p \in Indices(a.shape)} :
        \A p \in Indices(a.shape) : m <= a.data[p]
ArrayMax(a) ==
    CHOOSE m \in {a.data[p] : p \in Indices(a.shape)} :
        \A p \in Indices(a.shape) : m >= a.data[p]

\* np.vectorize(transparency)(volume_data, low=, mid=, upp=), lines 52-53
Vectorized(a, low, mid, upp) ==
    [shape |-> a.shape,
     data |-> [p \in Indices(a.shape) |-> transparency(a.data[p], low, mid, upp)]]

\* (volume_data - volume_data.min()) / (volume_data.max() - volume_data.min()), line 56.
\* The intensities are those of an unsigned image (0 .. RawMax), so neither
\* integer subtraction wraps; the division is numpy's true division.
Normalize(a) ==
    [shape |-> a.shape,
     data |-> [p \in Indices(a.shape) |->
                 TrueDivide(a.data[p] - ArrayMin(a), ArrayMax(a) - ArrayMin(a))]]

\* ndarray.flatten(order='F'): the first index varies fastest, lines 67-68
FlatIndex(shape, p) == p[1] + shape[1] * (p[2] + shape[2] * p[3])
FlattenF(a) ==
    [n \in 1 .. Size(a.shape) |->
        a.data[CHOOSE p \in Indices(a.shape) : FlatIndex(a.shape, p) = n - 1]]

(***************************************************************************)
(* The pyvista grid and its contour (marching cubes), lines 60-76.         *)
(***************************************************************************)
\* the scalars grid.set_active_scalars selects, line 69
ActiveScalars_transparency == "transparency"
ActiveScalars == "values"

\* pv.UniformGrid with dimensions, spacing, origin and the two point arrays
MakeGrid(shape, depth_spacing, vertical_spacing, horizontal_spacing, norm, transp) ==
    [dims |-> shape,
     spacing |-> <<depth_spacing, vertical_spacing, horizontal_spacing>>,
     origin |-> <<0, 0, 0>>,
     point_data |-> [values |-> FlattenF(norm), transparency |-> FlattenF(transp)],
     active |-> ActiveScalars]

\* the value of point array `name` at grid point p (VTK's point id is the
\* F-order flat index)
PointScalar(g, name, p) == g.point_data[name][FlatIndex(g.dims, p) + 1]

Axis(m) == [n \in 1 .. 3 |-> IF n = m THEN 1 ELSE 0]
Shift(p, m) == [n \in 1 .. 3 |-> p[n] + Axis(m)[n]]

\* the edges of the grid's cells: pairs of adjacent grid points
GridEdges(g) ==
    {<<p, Shift(p, m)>> : p \in Indices(g.dims), m \in 1 .. 3}
        \cap (Indices(g.dims) \X Indices(g.dims))

\* the cells (8 adjacent grid points each), named by their lowest corner
GridCells(g) ==
    {c \in Indices(g.dims) : \A m \in 1 .. 3 : c[m] + 1 <= g.dims[m] - 1}
Corners(c) ==
    {<<c[1] + a, c[2] + b, c[3] + d>> : a \in 0 .. 1, b \in 0 .. 1, d \in 0 .. 1}

\* a corner is inside the surface when its scalar is >= the iso-value
Above(g, p, value) == RatGe(PointScalar(g, g.active, p), value)

\* an edge test that takes an edge with any corner inside as crossed
Crossed_any(g, e, value) == Above(g, e[1], value) \/ Above(g, e[2], value)

\* the surface crosses an edge whose ends are on different sides
Crossed(g, e, value) == Above(g, e[1], value) # Above(g, e[2], value)

\* the contour vertex on a crossed edge: linear interpolation of the
\* position (in physical units) and of every point array
EdgeVertex(g, e, value) ==
    LET s1 == PointScalar(g, g.active, e[1])
        s2 == PointScalar(g, g.active, e[2])
        t  == RatDiv(RatSub(value, s1), RatSub(s2, s1))
        Lerp(a, b) == RatAdd(a, RatMul(t, RatSub(b, a)))
    IN  [pos |-> [m \in 1 .. 3 |->
                    RatAdd(Rat(g.origin[m]),
                           RatMul(Rat(g.spacing[m]),
                                  Lerp(Rat(e[1][m]), Rat(e[2][m]))))],
         values |-> Lerp(PointScalar(g, "values", e[1]),
                         PointScalar(g, "values", e[2])),
         transparency |-> Lerp(PointScalar(g, "transparency", e[1]),
                               PointScalar(g, "transparency", e[2]))]

\* grid.contour([value]): one vertex per crossed edge; the triangles of a
\* cell are fixed by the cell's configuration (which corners are inside),
\* so a cell's faces are recorded as that configuration.  A cell that is
\* uniformly inside or outside contributes nothing.
Contour(g, value) ==
    LET crossed == {e \in GridEdges(g) : Crossed(g, e, value)}
        cut == {c \in GridCells(g) :
                  \E e \in crossed : {e[1], e[2]} \subseteq Corners(c)}
    IN  [points |-> {EdgeVertex(g, e, value) : e \in crossed},
         faces |-> {[cell |-> c,
                     inside |-> {p \in Corners(c) : Above(g, p, value)}] : c \in cut}]

(***************************************************************************)
(* The STL round trip, lines 101-105, materials and scene, lines 30-39 and *)
(* 107-118.                                                                *)
(***************************************************************************)
\* "mesh{}.stl".format(i) and "mesh{}".format(i)
StlName(n) == "mesh" \o ToString(n) \o ".stl"
\* node names counted from 1
NodeName_one_based(n) == "mesh" \o ToString(n + 1)
NodeName(n) == "mesh" \o ToString(n)

\* contour.save(mesh_name): an STL file holds triangles and their vertex
\* coordinates, no point arrays
SaveStl(contour) ==
    [vertices |-> {v.pos : v \in contour.points}, faces |-> contour.faces]

\* trimesh.load_mesh(mesh_name): the geometry with the default visual
LoadMesh(stl) ==
    [vertices |-> stl.vertices, faces |-> stl.faces,
     visual |-> [kind |-> "ColorVisuals"]]

\* create_material(color), lines 30-39
create_material(color) ==
    [metallicFactor |-> 0, roughnessFactor |-> 1,
     baseColorTexture |-> color, alphaMode |-> "BLEND"]

TextureVisuals(material) == [kind |-> "TextureVisuals", material |-> material]

\* the material line 112 gives meshes[0]
FirstMaterial_blue(mats) == mats.lightblue_mat
FirstMaterial(mats) == mats.lightgrey_mat

\* the material line 114 gives every mesh of meshes[1:]
RestMaterial(mats) == mats.lightblue_mat

(***************************************************************************)
(* Inputs.                                                                 *)
(***************************************************************************)
\* the shape of the volumes of the pipeline: two cells along the first axis
Shape == <<3, 2, 2>>

\* a volume of three regions: the voxel at the origin, the plane x = 1 and
\* the rest (which holds 0)
VolumeOf(a, b) ==
    [shape |-> Shape,
     data |-> [p \in Indices(Shape) |->
                 IF p = <<0, 0, 0>> THEN a ELSE IF p[1] = 1 THEN b ELSE 0]]
Volumes == {VolumeOf(a, b) : a \in 0 .. RawMax, b \in 0 .. RawMax}

\* every volume of one cell, for the normalization alone
SmallShape == <<2, 2, 2>>
SmallVolumes ==
    {[shape |-> SmallShape, data |-> d] : d \in [Indices(SmallShape) -> 0 .. RawMax]}

\* <<lower_threshold, middle_threshold, upper_threshold>>: the defaults of
\* lines 42-43 and a triple inside the raw range
DefaultThresholds == <<100, 350, 900>>
Thresholds == {DefaultThresholds, <<1, 1, 2>>}

\* <<horizontal_spacing, vertical_spacing, depth_spacing>> (integers: type=int)
Spacings == {<<1, 1, 1>>, <<2, 1, 3>>, <<0, -1, 1>>}

\* iso-values: below the normalized range, inside it, its maximum, above it
IsoValues == {<<-1, 2>>, <<1, 2>>, <<1, 1>>, <<3, 2>>}
ContourRequests == UNION {[1 .. n -> IsoValues] : n \in 0 .. MaxContours}

\* the arguments of the classifier: small integers around the thresholds,
\* and the values and thresholds of the documented example
ClassifierValues == (-1 .. ArgMax + 1) \cup {99, 100, 350, 351, 899, 900}
ClassifierThresholds ==
    ((0 .. ArgMax) \X (0 .. ArgMax) \X (0 .. ArgMax)) \cup {DefaultThresholds}

(***************************************************************************)
(* The state before an invocation.                                         *)
(***************************************************************************)
NoArray == [shape |-> <<0, 0, 0>>, data |-> <<>>]
NoGrid == [dims |-> <<0, 0, 0>>]
NoMaterials == [created |-> FALSE]
NoCall == [fn |-> "none"]
NoPrev == [pc |-> "none"]

Locals ==
    /\ error = "none"
    /\ volume_data = NoArray
    /\ transparency_data = NoArray
    /\ normalized_data = NoArray
    /\ grid = NoGrid
    /\ all_contours = <<>>
    /\ meshes = <<>>
    /\ materials = NoMaterials
    /\ scene = <<>>
    /\ i = 0
    /\ exported = <<>>
    /\ log = <<>>

\* main parses a non-empty --contours list (float_list, lines 11-15: the
\* split of a string has at least one item); a direct call of tif_to_glb
\* may pass any sequence
Entry(a) == IF a.entry = "main" THEN "main" ELSE "imread"

Init ==
    /\ call = NoCall
    /\ args \in {a \in [entry : {"main", "tif_to_glb"},
                       readable : BOOLEAN,
                       file : Volumes,
                       thresholds : {DefaultThresholds},
                       spacing : Spacings,
                       contour_values : ContourRequests] :
                   a.entry = "main" => a.contour_values # <<>>}
    /\ pc = Entry(args)
    /\ Locals
    /\ files = <<>>
    /\ run = 1
    /\ prev = NoPrev

lower_threshold == args.thresholds[1]
middle_threshold == args.thresholds[2]
upper_threshold == args.thresholds[3]
horizontal_spacing == args.spacing[1]
vertical_spacing == args.spacing[2]
depth_spacing == args.spacing[3]
contour_values == args.contour_values

(***************************************************************************)
(* main, lines 123-151, and tif_to_glb, lines 41-120, one action per step. *)
(***************************************************************************)
\* main: the arguments are parsed (spacings and thresholds by int) and
\* handed to tif_to_glb unchanged and unchecked, lines 136-151
Main ==
    /\ pc = "main"
    /\ pc' = "imread"
    /\ UNCHANGED <<call, args, error, volume_data, transparency_data,
                   normalized_data, grid, all_contours, files, meshes, materials,
                   scene, i, exported, log, run, prev>>

\* line 48: tifffile.imread returns the array or raises
Imread ==
    /\ pc = "imread"
    /\ IF args.readable
       THEN /\ volume_data' = args.file
            /\ pc' = "classify"
            /\ error' = error
       ELSE /\ error' = "TiffFileError"
            /\ pc' = "failed"
            /\ volume_data' = volume_data
    /\ UNCHANGED <<call, args, transparency_data, normalized_data, grid,
                   all_contours, files, meshes, materials, scene, i, exported,
                   log, run, prev>>

\* lines 52-53: the classifier on every voxel
Classify ==
    /\ pc = "classify"
    /\ transparency_data' =
           Vectorized(volume_data, lower_threshold, middle_threshold, upper_threshold)
    /\ log' = Append(log, <<"classify", 0>>)
    /\ pc' = "normalize"
    /\ UNCHANGED <<call, args, error, volume_data, normalized_data, grid,
                   all_contours, files, meshes, materials, scene, i, exported,
                   run, prev>>

\* line 56
NormalizeStep ==
    /\ pc = "normalize"
    /\ normalized_data' = Normalize(volume_data)
    /\ log' = Append(log, <<"normalize", 0>>)
    /\ pc' = "grid"
    /\ UNCHANGED <<call, args, error, volume_data, transparency_data, grid,
                   all_contours, files, meshes, materials, scene, i, exported,
                   run, prev>>

\* lines 60-73: the grid, its point arrays, the active scalars; no check
\* of the spacing
CreateGrid ==
    /\ pc = "grid"
    /\ grid' = MakeGrid(volume_data.shape, depth_spacing, vertical_spacing,
                        horizontal_spacing, normalized_data, transparency_data)
    /\ all_contours' = <<>>
    /\ i' = 0
    /\ pc' = "contour"
    /\ UNCHANGED <<call, args, error, volume_data, transparency_data,
                   normalized_data, files, meshes, materials, scene, exported,
                   log, run, prev>>

\* lines 74-76: one contour per requested value, in request order
ContourStep ==
    /\ pc = "contour"
    /\ i < Len(contour_values)
    /\ all_contours' = Append(all_contours, Contour(grid, contour_values[i + 1]))
    /\ log' = Append(log, <<"contour", i>>)
    /\ i' = i + 1
    /\ UNCHANGED <<call, args, pc, error, volume_data, transparency_data,
                   normalized_data, grid, files, meshes, materials, scene,
                   exported, run, prev>>

\* the loop of line 74 ends; line 101
ContourDone ==
    /\ pc = "contour"
    /\ i = Len(contour_values)
    /\ meshes' = <<>>
    /\ i' = 0
    /\ pc' = "saveload"
    /\ UNCHANGED <<call, args, error, volume_data, transparency_data,
                   normalized_data, grid, all_contours, files, materials, scene,
                   exported, log, run, prev>>

\* lines 102-105: contour i is saved as mesh{i}.stl and loaded back
SaveLoadStep ==
    /\ pc = "saveload"
    /\ i < Len(all_contours)
    /\ files' = (StlName(i) :> SaveStl(all_contours[i + 1])) @@ files
    /\ meshes' = Append(meshes, LoadMesh(files'[StlName(i)]))
    /\ i' = i + 1
    /\ UNCHANGED <<call, args, pc, error, volume_data, transparency_data,
                   normalized_data, grid, all_contours, materials, scene,
                   exported, log, run, prev>>

\* the loop of line 102 ends
SaveLoadDone ==
    /\ pc = "saveload"
    /\ i = Len(all_contours)
    /\ pc' = "materials"
    /\ UNCHANGED <<call, args, error, volume_data, transparency_data,
                   normalized_data, grid, all_contours, files, meshes, materials,
                   scene, i, exported, log, run, prev>>

\* lines 107-111: the three materials and the empty scene
CreateMaterials ==
    /\ pc = "materials"
    /\ materials' = [darkgrey_mat |-> create_material(<<50, 50, 50, 100>>),
                     lightblue_mat |-> create_material(<<20, 100, 200, 150>>),
                     lightgrey_mat |-> create_material(<<175, 175, 175, 150>>)]
    /\ scene' = <<>>
    /\ pc' = "assign_first"
    /\ UNCHANGED <<call, args, error, volume_data, transparency_data,
                   normalized_data, grid, all_contours, files, meshes, i,
                   exported, log, run, prev>>

\* line 112: meshes[0] raises IndexError on an empty list
AssignFirst ==
    /\ pc = "assign_first"
    /\ IF Len(meshes) = 0
       THEN /\ error' = "IndexError"
            /\ pc' = "failed"
            /\ UNCHANGED <<meshes, log, i>>
       ELSE /\ meshes' = [meshes EXCEPT
                            ![1].visual = TextureVisuals(FirstMaterial(materials))]
            /\ log' = Append(log, <<"material", 0>>)
            /\ i' = 0
            /\ pc' = "assign_rest"
            /\ error' = error
    /\ UNCHANGED <<call, args, volume_data, transparency_data, normalized_data,
                   grid, all_contours, files, materials, scene, exported, run,
                   prev>>

\* lines 113-114: item i of meshes[1:] is meshes[i + 1]
AssignRest ==
    /\ pc = "assign_rest"
    /\ i < Len(meshes) - 1
    /\ meshes' = [meshes EXCEPT
                    ![i + 2].visual = TextureVisuals(RestMaterial(materials))]
    /\ log' = Append(log, <<"material", i + 1>>)
    /\ i' = i + 1
    /\ UNCHANGED <<call, args, pc, error, volume_data, transparency_data,
                   normalized_data, grid, all_contours, files, materials, scene,
                   exported, run, prev>>

\* the loop of line 113 ends
AssignRestDone ==
    /\ pc = "assign_rest"
    /\ i = Len(meshes) - 1
    /\ i' = 0
    /\ pc' = "add"
    /\ UNCHANGED <<call, args, error, volume_data, transparency_data,
                   normalized_data, grid, all_contours, files, meshes, materials,
                   scene, exported, log, run, prev>>

\* lines 116-118: mesh i becomes the node mesh{i} of the scene
AddGeometry ==
    /\ pc = "add"
    /\ i < Len(meshes)
    /\ scene' = Append(scene, [name |-> NodeName(i), geometry |-> meshes[i + 1]])
    /\ log' = Append(log, <<"add", i>>)
    /\ i' = i + 1
    /\ UNCHANGED <<call, args, pc, error, volume_data, transparency_data,
                   normalized_data, grid, all_contours, files, meshes, materials,
                   exported, run, prev>>

\* the loop of line 116 ends
AddDone ==
    /\ pc = "add"
    /\ i = Len(meshes)
    /\ pc' = "export"
    /\ UNCHANGED <<call, args, error, volume_data, transparency_data,
                   normalized_data, grid, all_contours, files, meshes, materials,
                   scene, i, exported, log, run, prev>>

\* the export indented into the loop of line 116: one export per added node
Export_in_loop ==
    /\ pc = "add"
    /\ 0 < i
    /\ Len(exported) < i
    /\ exported' = Append(exported, scene)
    /\ log' = Append(log, <<"export", 0>>)
    /\ UNCHANGED <<call, args, pc, error, volume_data, transparency_data,
                   normalized_data, grid, all_contours, files, meshes, materials,
                   scene, i, run, prev>>

\* line 120
Export ==
    /\ pc = "export"
    /\ exported' = Append(exported, scene)
    /\ log' = Append(log, <<"export", 0>>)
    /\ pc' = "done"
    /\ UNCHANGED <<call, args, error, volume_data, transparency_data,
                   normalized_data, grid, all_contours, files, meshes, materials,
                   scene, i, run, prev>>

Finished == pc \in {"done", "failed"}

\* the caller invokes the program again on the same volume, spacings and
\* contour values with other thresholds (lines 41-46, 128-130); the files
\* of the working directory stay
Reinvoke ==
    /\ Finished
    /\ run < MaxRuns
    /\ \E t \in Thresholds \ {args.thresholds} :
           args' = [args EXCEPT !.thresholds = t]
    /\ prev' = [pc |-> pc, error |-> error, exported |-> exported,
                thresholds |-> args.thresholds]
    /\ run' = run + 1
    /\ pc' = Entry(args)
    /\ error' = "none"
    /\ volume_data' = NoArray
    /\ transparency_data' = NoArray
    /\ normalized_data' = NoArray
    /\ grid' = NoGrid
    /\ all_contours' = <<>>
    /\ meshes' = <<>>
    /\ materials' = NoMaterials
    /\ scene' = <<>>
    /\ i' = 0
    /\ exported' = <<>>
    /\ log' = <<>>
    /\ UNCHANGED <<call, files>>

InvocationStep ==
    \/ Main
    \/ Imread
    \/ Classify
    \/ NormalizeStep
    \/ CreateGrid
    \/ ContourStep
    \/ ContourDone
    \/ SaveLoadStep
    \/ SaveLoadDone
    \/ CreateMaterials
    \/ AssignFirst
    \/ AssignRest
    \/ AssignRestDone
    \/ AddGeometry
    \/ AddDone
    \/ Export

Next ==
    \/ InvocationStep
    \/ Reinvoke

Spec == Init /\ [][Next]_vars

(***************************************************************************)
(* The pure functions applied to drawn arguments.                          *)
(***************************************************************************)
TransparencyCalls ==
    {[fn |-> "transparency", value |-> v, low |-> t[1], mid |-> t[2], upp |-> t[3],
      returned |-> FALSE, ret |-> NaN] :
        v \in ClassifierValues, t \in ClassifierThresholds}

NormalizeCalls ==
    {[fn |-> "normalize", raw |-> a, returned |-> FALSE, ret |-> NoArray] :
        a \in SmallVolumes \cup Volumes}

InitFunctions ==
    /\ call \in TransparencyCalls \cup NormalizeCalls
    /\ args = [entry |-> "none"]
    /\ pc = "idle"
    /\ Locals
    /\ files = <<>>
    /\ run = 1
    /\ prev = NoPrev

\* transparency(value, low, mid, upp), lines 17-25
CallTransparency ==
    /\ call.fn = "transparency"
    /\ ~call.returned
    /\ call' = [call EXCEPT
                  !.returned = TRUE,
                  !.ret = transparency(call.value, call.low, call.mid, call.upp)]
    /\ UNCHANGED <<args, pc, error, volume_data, transparency_data,
                   normalized_data, grid, all_contours, files, meshes, materials,
                   scene, i, exported, log, run, prev>>

\* the expression of line 56 on an array
CallNormalize ==
    /\ call.fn = "normalize"
    /\ ~call.returned
    /\ call' = [call EXCEPT !.returned = TRUE, !.ret = Normalize(call.raw)]
    /\ UNCHANGED <<args, pc, error, volume_data, transparency_data,
                   normalized_data, grid, all_contours, files, meshes, materials,
                   scene, i, exported, log, run, prev>>

NextFunctions ==
    \/ CallTransparency
    \/ CallNormalize

SpecFunctions == InitFunctions /\ [][NextFunctions]_vars

(***************************************************************************)
(* Claims.                                                                 *)
(***************************************************************************)
Bands == {Band100, Band075, Band050}
Returned(fn) == call.fn = fn /\ call.returned

\* the RGBA color of the material a mesh carries
ColorOf(mesh) == mesh.visual.material.baseColorTexture
HasMaterial(mesh) == mesh.visual.kind = "TextureVisuals"
OuterShellColor == <<20, 100, 200, 150>>
InnerLayerColor == <<175, 175, 175, 150>>
MaterialsAssigned == pc \in {"add", "export", "done"}

\* C1 (as stated): after material assignment layer 0 carries the color
\* (20,100,200,150) and every layer i >= 1 carries (175,175,175,150).
C1_Original ==
    MaterialsAssigned =>
        \A k \in 1 .. Len(meshes) :
            /\ HasMaterial(meshes[k])
            /\ ColorOf(meshes[k]) = IF k = 1 THEN OuterShellColor ELSE InnerLayerColor

\* C1 (amended): after material assignment layer 0 carries the color
\* (175,175,175,150) and every layer i >= 1 carries (20,100,200,150),
\* whatever the iso-values; the nodes of the scene carry the same.
C1_LayerMaterials ==
    /\ MaterialsAssigned =>
        \A k \in 1 .. Len(meshes) :
            /\ HasMaterial(meshes[k])
            /\ ColorOf(meshes[k]) = IF k = 1 THEN InnerLayerColor ELSE OuterShellColor
    /\ \A k \in 1 .. Len(scene) :
            ColorOf(scene[k].geometry) = IF k = 1 THEN InnerLayerColor ELSE OuterShellColor

\* two layers with different iso-values have their materials
C1_Witness ==
    /\ pc = "done"
    /\ Len(meshes) = 2
    /\ contour_values[1] # contour_values[2]
    /\ ColorOf(meshes[1]) = InnerLayerColor
    /\ ColorOf(meshes[2]) = OuterShellColor

SameGeometry(mesh, contour) ==
    /\ mesh.vertices = {v.pos : v \in contour.points}
    /\ mesh.faces = contour.faces

\* C2: at the export step the scene has one node per contour value, node i
\* is named "mesh{i}" and holds the mesh extracted for contour_values[i].
C2_SceneLayers ==
    pc \in {"export", "done"} =>
        /\ Len(scene) = Len(contour_values)
        /\ \A k \in 1 .. Len(scene) :
              /\ scene[k].name = "mesh" \o ToString(k - 1)
              /\ all_contours[k] = Contour(grid, contour_values[k])
              /\ SameGeometry(scene[k].geometry, all_contours[k])
        /\ (Len(scene) >= 1 => scene[1].name = "mesh0")
        /\ (Len(scene) >= 2 => scene[2].name = "mesh1")

\* a scene of two layers for a repeated iso-value, one and the same empty mesh
C2_Witness ==
    /\ pc = "done"
    /\ Len(scene) = 2
    /\ contour_values[1] = contour_values[2]
    /\ scene[1].geometry.faces = {}
    /\ scene[2].geometry.vertices = {}

\* C3: with low <= mid < upp the classifier returns 1.0 below low, 0.75 on
\* [low, mid], 1.0 strictly between mid and upp, 0.5 from upp on; the
\* documented values for (100, 350, 900); the result is always a band.
C3_TransparencyBands ==
    Returned("transparency") =>
        /\ call.ret \in Bands
        /\ (call.low <= call.mid /\ call.mid < call.upp) =>
              /\ call.value < call.low => call.ret = Band100
              /\ (call.low <= call.value /\ call.value <= call.mid) =>
                    call.ret = Band075
              /\ (call.mid < call.value /\ call.value < call.upp) =>
                    call.ret = Band100
              /\ call.value >= call.upp => call.ret = Band050
        /\ <<call.low, call.mid, call.upp>> = <<100, 350, 900>> =>
              /\ call.value = 99 => call.ret = <<1, 1>>
              /\ call.value = 100 => call.ret = <<3, 4>>
              /\ call.value = 350 => call.ret = <<3, 4>>
              /\ call.value = 351 => call.ret = <<1, 1>>
              /\ call.value = 899 => call.ret = <<1, 1>>
              /\ call.value = 900 => call.ret = <<1, 2>>

\* the classifier has returned 1.0 for 351 under the default thresholds
C3_Witness ==
    /\ Returned("transparency")
    /\ <<call.low, call.mid, call.upp>> = <<100, 350, 900>>
    /\ call.value = 351
    /\ call.ret = Band100

InUnitInterval(r) == RatGe(r, Rat(0)) /\ RatLe(r, Rat(1))

\* C4 (as stated): the normalized values lie in [0,1] and equal
\* (raw - min) / (max - min), with smallest value 0 and largest 1 when
\* max > min, and all of them 0 when max = min.
C4_Normalized ==
    Returned("normalize") =>
        LET raw == call.raw
            lo == ArrayMin(raw)
            hi == ArrayMax(raw)
            P == Indices(raw.shape)
        IN  /\ \A p \in P : InUnitInterval(call.ret.data[p])
            /\ hi > lo =>
                  /\ \A p \in P :
                        call.ret.data[p] = TrueDivide(raw.data[p] - lo, hi - lo)
                  /\ \E p \in P : call.ret.data[p] = Rat(0)
                  /\ \E p \in P : call.ret.data[p] = Rat(1)
            /\ hi = lo => \A p \in P : call.ret.data[p] = Rat(0)

\* C5 (as stated): an empty contour request ends the invocation in
\* EmptyContourListError and nothing is exported.
C5_EmptyContourList ==
    (args.entry # "none" /\ args.readable /\ contour_values = <<>> /\ Finished) =>
        /\ pc = "failed"
        /\ error = "EmptyContourListError"
        /\ exported = <<>>

InvalidSpacing ==
    horizontal_spacing <= 0 \/ vertical_spacing <= 0 \/ depth_spacing <= 0

\* C6 (as stated): started from main with a spacing <= 0, no contour is extracted, nothing is
\* exported and the invocation ends in InvalidSpacingError.
C6_InvalidSpacing ==
    (args.entry = "main" /\ InvalidSpacing) =>
        /\ all_contours = <<>>
        /\ exported = <<>>
        /\ pc # "done"
        /\ (pc = "failed" /\ args.readable) => error = "InvalidSpacingError"

\* the iso-value lies strictly above or strictly below the normalized field
OutOfRange(value) ==
    \/ \A p \in Indices(normalized_data.shape) : RatLt(normalized_data.data[p], value)
    \/ \A p \in Indices(normalized_data.shape) : RatGt(normalized_data.data[p], value)

NoCellCut(value) ==
    \A c \in GridCells(grid) :
        \/ \A p \in Corners(c) : RatGe(PointScalar(grid, "values", p), value)
        \/ \A p \in Corners(c) : RatLt(PointScalar(grid, "values", p), value)

EmptyMesh(mesh) == mesh.vertices = {} /\ mesh.faces = {}

\* C7: for a volume with max > min, an iso-value strictly outside the range
\* of the normalized field cuts no cell, its mesh is empty, the invocation
\* does not fail, and the empty mesh gets the material of its position and
\* its own named node in the exported scene.
C7_EmptyLayers ==
    \A k \in 1 .. Len(all_contours) :
        (ArrayMax(volume_data) > ArrayMin(volume_data) /\ OutOfRange(contour_values[k])) =>
            /\ NoCellCut(contour_values[k])
            /\ all_contours[k].points = {}
            /\ all_contours[k].faces = {}
            /\ error = "none"
            /\ pc # "failed"
            /\ k <= Len(meshes) => EmptyMesh(meshes[k])
            /\ MaterialsAssigned =>
                  /\ HasMaterial(meshes[k])
                  /\ meshes[k].visual.material =
                        IF k = 1 THEN materials.lightgrey_mat ELSE materials.lightblue_mat
            /\ pc = "done" =>
                  /\ Len(exported) = 1
                  /\ exported[1][k].name = "mesh" \o ToString(k - 1)
                  /\ EmptyMesh(exported[1][k].geometry)
                  /\ HasMaterial(exported[1][k].geometry)

\* a non-constant volume exported with one layer above and one below the range
C7_Witness ==
    /\ pc = "done"
    /\ ArrayMax(volume_data) > ArrayMin(volume_data)
    /\ Len(contour_values) = 2
    /\ RatGt(contour_values[1], Rat(1))
    /\ RatLt(contour_values[2], Rat(0))
    /\ EmptyMesh(exported[1][1].geometry)
    /\ EmptyMesh(exported[1][2].geometry)

\* C8: two invocations that differ only in the thresholds end the same way
\* and export the same scene (meshes, materials, names, order).
C8_ThresholdIndependence ==
    (Finished /\ prev.pc # "none") =>
        /\ prev.thresholds # args.thresholds
        /\ prev.pc = pc
        /\ prev.error = error
        /\ prev.exported = exported

\* a second invocation whose transparency field differs from the first's
\* has exported the same scene with a non-empty mesh
C8_Witness ==
    /\ pc = "done"
    /\ prev.pc = "done"
    /\ transparency_data #
          Vectorized(volume_data, prev.thresholds[1], prev.thresholds[2],
                     prev.thresholds[3])
    /\ prev.exported = exported
    /\ \E k \in 1 .. Len(scene) : scene[k].geometry.faces # {}

Steps(op, n) == [k \in 1 .. n |-> <<op, k - 1>>]
ExpectedLog(n) ==
    <<<<"classify", 0>>, <<"normalize", 0>>>> \o Steps("contour", n)
        \o Steps("material", n) \o Steps("add", n) \o <<<<"export", 0>>>>
IsPrefix(s, t) == Len(s) <= Len(t) /\ \A k \in 1 .. Len(s) : s[k] = t[k]

\* C9: the steps happen in the order classify, normalize, contours in
\* request order, materials, scene nodes, export; the export happens at
\* most once and only after every layer is extracted, has its material and
\* is in the scene; a failure ends the invocation with nothing exported.
C9_StepOrder ==
    args.entry # "none" =>
        /\ IsPrefix(log, ExpectedLog(Len(contour_values)))
        /\ Len(exported) <= 1
        /\ exported # <<>> =>
              /\ pc = "done"
              /\ error = "none"
              /\ log = ExpectedLog(Len(contour_values))
              /\ Len(all_contours) = Len(contour_values)
              /\ Len(meshes) = Len(contour_values)
              /\ \A k \in 1 .. Len(meshes) : HasMaterial(meshes[k])
              /\ Len(scene) = Len(contour_values)
              /\ exported[1] = scene
        /\ pc = "done" => exported # <<>>
        /\ (error # "none" \/ pc = "failed") =>
              /\ pc = "failed"
              /\ error # "none"
              /\ exported = <<>>
              /\ ~ENABLED InvocationStep

\* an invocation has performed every step for two layers and exported once
C9_Witness ==
    /\ pc = "done"
    /\ Len(contour_values) = 2
    /\ log = ExpectedLog(2)
    /\ Len(exported) = 1

\* C10 (as stated): whenever value >= upp the result is 0.5, for every
\* triple of thresholds.
C10_Original ==
    (Returned("transparency") /\ call.value >= call.upp) => call.ret = Band050

\* C10 (amended): the classifier is total for every triple of thresholds;
\* with value >= upp the result is 1.0 when value < low, 0.75 when
\* low <= value <= mid, and 0.5 otherwise.
C10_UpperBand ==
    Returned("transparency") =>
        /\ call.ret \in Bands
        /\ call.value >= call.upp =>
              call.ret = IF call.value < call.low THEN Band100
                         ELSE IF call.value <= call.mid THEN Band075
                         ELSE Band050

\* value >= upp with thresholds out of order, past low and mid: 0.5
C10_Witness ==
    /\ Returned("transparency")
    /\ call.low > call.mid
    /\ call.upp < call.low
    /\ call.value >= call.upp
    /\ call.value >= call.low
    /\ call.ret = Band050

====
